---- MODULE Spec2Model ----
(***************************************************************************)
(* Model of accessibility-tool.py: the rectangle snap/clamp helper, the    *)
(* text-block merger, the image filter, the output naming of the file      *)
(* dispatcher and the page rewriting loop of process_pdf.                  *)
(*                                                                         *)
(* Coordinates are integers (page points).  Strings are sequences of       *)
(* one-character strings.                                                  *)
(***************************************************************************)
EXTENDS Integers, Sequences, FiniteSets, TLC

VARIABLES
    pc,                 \* position of the running call
    rect,               \* snap_rect_expand_and_clamp: argument rect
    page_rect,          \* snap_rect_expand_and_clamp: argument page_rect
    grid_size,          \* snap_rect_expand_and_clamp: argument grid_size
    clamped,            \* snap_rect_expand_and_clamp: returned rectangle
    blocks,             \* merge_text_blocks: the caller's list of block objects
    vertical_threshold, \* merge_text_blocks: argument vertical_threshold
    merged,             \* merge_text_blocks: returned list
    page,               \* extract_images_with_bboxes: argument page
    images,             \* extract_images_with_bboxes: returned list
    file_path,          \* handle_file: argument file_path
    fs,                 \* handle_file: the file system the call runs on
    save_path,          \* handle_file: the path handed to save(), <<>> if none
    saved,              \* handle_file: a file was written at save_path
    dialog,             \* handle_file: the error dialog shown, "none" if none
    doc,                \* process_pdf: the pages of the opened document
    page_index,         \* process_pdf: page_index of the page loop
    block_i,            \* process_pdf: position of a block loop in blocks
    img_i,              \* process_pdf: position of the inner loop in images
    ops                 \* process_pdf: the calls issued so far, in order

vars == <<pc, rect, page_rect, grid_size, clamped,
          blocks, vertical_threshold, merged,
          page, images,
          file_path, fs, save_path, saved, dialog,
          doc, page_index, block_i, img_i, ops>>

snap_vars == <<rect, page_rect, grid_size, clamped>>
merge_vars == <<blocks, vertical_threshold, merged>>
image_vars == <<page, images>>
file_vars == <<file_path, fs, save_path, saved, dialog>>
pdf_vars == <<doc, page_index, block_i, img_i, ops>>

(***************************************************************************)
(* Arithmetic helpers                                                      *)
(***************************************************************************)
Min(a, b) == IF a <= b THEN a ELSE b
Max(a, b) == IF a >= b THEN a ELSE b
Abs(a) == IF a < 0 THEN -a ELSE a

\* math.floor(x / g) and math.ceil(x / g) for an integer x and g > 0
math_floor(x, g) == x \div g
math_ceil(x, g) == -((-x) \div g)

\* fitz.Rect(x0, y0, x1, y1): the four numbers are kept as given
Rect(a, b, c, d) == [x0 |-> a, y0 |-> b, x1 |-> c, y1 |-> d]

NoRect == Rect(0, 0, 0, 0)

(***************************************************************************)
(* snap_rect_expand_and_clamp                                              *)
(***************************************************************************)
MaxCoord == 4
MaxGrid == 3

RectCoords == (0 - MaxCoord) .. MaxCoord
GridSizes == 1 .. MaxGrid

\* the rectangles handed to the helper: x0 <= x1 and y0 <= y1
InputRects ==
    { r \in [x0 : RectCoords, y0 : RectCoords, x1 : RectCoords, y1 : RectCoords] :
        r.x0 <= r.x1 /\ r.y0 <= r.y1 }

\* page rectangles of positive size, with edges on and off the grid
PageRects ==
    { Rect(a, b, c, d) : a \in {0, 1}, b \in {0, 1}, c \in {2, 3}, d \in {2, 3} }

\* ceil written as floor plus one cell: wrong on exact multiples
snap_ceil_as_floor_plus_one(r, p, g) ==
    LET snapped == Rect(math_floor(r.x0, g) * g,
                        math_floor(r.y0, g) * g,
                        (math_floor(r.x1, g) + 1) * g,
                        (math_floor(r.y1, g) + 1) * g)
    IN  Rect(Max(snapped.x0, p.x0), Max(snapped.y0, p.y0),
             Min(snapped.x1, p.x1), Min(snapped.y1, p.y1))

snap_rect_expand_and_clamp(r, p, g) ==
    LET snapped == Rect(math_floor(r.x0, g) * g,
                        math_floor(r.y0, g) * g,
                        math_ceil(r.x1, g) * g,
                        math_ceil(r.y1, g) * g)
    IN  Rect(Max(snapped.x0, p.x0), Max(snapped.y0, p.y0),
             Min(snapped.x1, p.x1), Min(snapped.y1, p.y1))

(***************************************************************************)
(* merge_text_blocks                                                       *)
(***************************************************************************)
MaxMergeBlocks == 3

\* a block object of page.get_text("dict"): id is the identity of the dict
\* object, type 0 is text and type 1 is image; only text blocks carry lines
Block(i, t, b, l) == [id |-> i, type |-> t, bbox |-> b, lines |-> l]

\* an upper row (boxes 5 and 25 high, the tall one overlapping the lower
\* row) and a lower row, with left edges 0, 1 and 5 units from the page edge
TextBoxes ==
    { Rect(a, 0, a + 20, h) : a \in {0, 1, 5}, h \in {5, 25} }
    \cup { Rect(a, 10, a + 20, 15) : a \in {0, 1, 5} }
LineLists == { <<"a">>, <<"a", "b">> }

\* block contents without identity
RawBlocks ==
    { [type |-> 0, bbox |-> b, lines |-> l] : b \in TextBoxes, l \in LineLists }
    \cup { [type |-> 1, bbox |-> Rect(0, 0, 20, 5), lines |-> <<>>] }

\* a list of distinct block objects: the object at position i has identity i
with_identity(f) ==
    [i \in 1 .. Len(f) |-> Block(i, f[i].type, f[i].bbox, f[i].lines)]

Thresholds == {4, 5}

\* abs(rect.x0 - current_rect.x0) < 5
AlignTolerance == 5

\* [b for b in blocks if b.get("type") == 0]
text_blocks_of(bs) == SelectSeq(bs, LAMBDA b : b.type = 0)

\* one insertion of the stable sort: b goes after every element whose key is
\* not greater than its own
RECURSIVE insert_by_top(_, _)
insert_by_top(b, s) ==
    IF s = <<>> THEN <<b>>
    ELSE IF Head(s).bbox.y0 <= b.bbox.y0
         THEN <<Head(s)>> \o insert_by_top(b, Tail(s))
         ELSE <<b>> \o s

\* sorted(..., key=lambda b: b["bbox"][1]): ascending y0, ties in input order
RECURSIVE sorted_by_top(_)
sorted_by_top(bs) ==
    IF bs = <<>> THEN <<>>
    ELSE insert_by_top(bs[Len(bs)], sorted_by_top(SubSeq(bs, 1, Len(bs) - 1)))

\* the gap is measured from the top of the accumulator, not from its bottom
merge_condition_from_top(cur, nxt, thr) ==
    /\ nxt.y0 - cur.y0 <= thr
    /\ Abs(nxt.x0 - cur.x0) < AlignTolerance

\* vertical_gap <= vertical_threshold and abs(rect.x0 - current_rect.x0) < 5
merge_condition(cur, nxt, thr) ==
    /\ nxt.y0 - cur.y1 <= thr
    /\ Abs(nxt.x0 - cur.x0) < AlignTolerance

\* the accumulator after a merge: the same object, bbox grown, lines appended
merge_into(cur, blk) ==
    [cur EXCEPT !.bbox = Rect(Min(cur.bbox.x0, blk.bbox.x0),
                              Min(cur.bbox.y0, blk.bbox.y0),
                              Max(cur.bbox.x1, blk.bbox.x1),
                              Max(cur.bbox.y1, blk.bbox.y1)),
                !.lines = cur.lines \o blk.lines]

\* the loop over the sorted blocks, from the second block on; the trailing
\* "if current_block: merged.append(current_block)" ends it
RECURSIVE merge_loop(_, _, _, _)
merge_loop(rest, cur, out, thr) ==
    IF rest = <<>> THEN Append(out, cur)
    ELSE IF merge_condition(cur.bbox, Head(rest).bbox, thr)
         THEN merge_loop(Tail(rest), merge_into(cur, Head(rest)), out, thr)
         ELSE merge_loop(Tail(rest), Head(rest), Append(out, cur), thr)

\* the final accumulator is never appended
merge_text_blocks_drop_last(bs, thr) ==
    LET sorted == sorted_by_top(text_blocks_of(bs))
        all == IF sorted = <<>> THEN <<>>
               ELSE merge_loop(Tail(sorted), Head(sorted), <<>>, thr)
    IN  IF all = <<>> THEN <<>> ELSE SubSeq(all, 1, Len(all) - 1)

merge_text_blocks(bs, thr) ==
    LET sorted == sorted_by_top(text_blocks_of(bs))
    IN  IF sorted = <<>> THEN <<>>
        ELSE merge_loop(Tail(sorted), Head(sorted), <<>>, thr)

\* the caller's list after the call: the accumulators are the input objects,
\* modified in place
blocks_after_merge(bs, out) ==
    [i \in 1 .. Len(bs) |->
        IF \E k \in 1 .. Len(out) : out[k].id = bs[i].id
        THEN out[CHOOSE k \in 1 .. Len(out) : out[k].id = bs[i].id]
        ELSE bs[i]]

(***************************************************************************)
(* extract_images_with_bboxes                                              *)
(***************************************************************************)
MaxImages == 2

\* bbox.width < 10 or bbox.height < 10
MinImageSize == 10
\* bbox.width > page_rect.width * 0.98, as a percentage
NearFullPercent == 98
\* abs(bbox.x0 - page_rect.x0) < 1
AlignSlack == 1

Width(r) == r.x1 - r.x0
Height(r) == r.y1 - r.y0

ImagePageRect == Rect(0, 0, 100, 100)

\* horizontal and vertical extents of an image placement on the page
ImageXExtents == { <<0, 100>>, <<0, 98>>, <<1, 100>>, <<40, 55>>, <<40, 49>> }
ImageYExtents == { <<0, 100>>, <<0, 98>>, <<1, 55>>, <<40, 50>>, <<40, 45>> }

\* what page.get_image_bbox does for one entry of page.get_images: it
\* returns a rectangle or raises
ImageOutcomes ==
    { [resolves |-> TRUE, bbox |-> Rect(x[1], y[1], x[2], y[2])] :
        x \in ImageXExtents, y \in ImageYExtents }
    \cup { [resolves |-> FALSE, bbox |-> NoRect] }

\* the entries of page.get_images(full=True): entry i has xref i
with_xref(f) ==
    [i \in 1 .. Len(f) |-> [xref |-> i, resolves |-> f[i].resolves,
                            bbox |-> f[i].bbox]]

\* the size filter skips only images small in both dimensions
too_small_both(bbox) ==
    Width(bbox) < MinImageSize /\ Height(bbox) < MinImageSize

too_small(bbox) ==
    Width(bbox) < MinImageSize \/ Height(bbox) < MinImageSize

\* the condition of the second "continue": header/footer, sidebar, full page
is_background(bbox, pr) ==
    LET near_full_width == Width(bbox) * 100 > Width(pr) * NearFullPercent
        near_full_height == Height(bbox) * 100 > Height(pr) * NearFullPercent
        aligned_left == Abs(bbox.x0 - pr.x0) < AlignSlack
        aligned_right == Abs(bbox.x1 - pr.x1) < AlignSlack
        aligned_top == Abs(bbox.y0 - pr.y0) < AlignSlack
        aligned_bottom == Abs(bbox.y1 - pr.y1) < AlignSlack
    IN  \/ near_full_width /\ (aligned_top \/ aligned_bottom)
        \/ near_full_height /\ (aligned_left \/ aligned_right)
        \/ near_full_width /\ near_full_height /\ aligned_left /\ aligned_top

\* the loop over page.get_images: a raising entry is skipped by the except
RECURSIVE extract_loop(_, _, _)
extract_loop(imgs, pr, out) ==
    IF imgs = <<>> THEN out
    ELSE LET img == Head(imgs)
         IN  IF ~ img.resolves THEN extract_loop(Tail(imgs), pr, out)
             ELSE IF too_small(img.bbox) THEN extract_loop(Tail(imgs), pr, out)
             ELSE IF is_background(img.bbox, pr)
                  THEN extract_loop(Tail(imgs), pr, out)
             ELSE extract_loop(Tail(imgs), pr,
                               Append(out, [xref |-> img.xref, bbox |-> img.bbox]))

extract_images_with_bboxes(pg) == extract_loop(pg.images, pg.rect, <<>>)

(***************************************************************************)
(* create_output_filename, process_pdf's output path, handle_file          *)
(***************************************************************************)
\* "-Accessible-Copy"
Marker == <<"-", "A", "c", "c", "e", "s", "s", "i", "b", "l", "e",
            "-", "C", "o", "p", "y">>

DotPdf == <<".", "p", "d", "f">>
DotDocx == <<".", "d", "o", "c", "x">>
DotPptx == <<".", "p", "p", "t", "x">>

\* str.lower() on the characters that occur in the paths
lower_char(c) ==
    CASE c = "P" -> "p" [] c = "D" -> "d" [] c = "F" -> "f" [] c = "O" -> "o"
      [] c = "C" -> "c" [] c = "X" -> "x" [] c = "T" -> "t" [] OTHER -> c

lower(s) == [i \in 1 .. Len(s) |-> lower_char(s[i])]

\* p.rfind(c) + 1: the last position of c in p, 0 if there is none
rfind(p, c) ==
    LET hits == { i \in 1 .. Len(p) : p[i] = c }
    IN  IF hits = {} THEN 0 ELSE CHOOSE i \in hits : \A j \in hits : j <= i

\* os.path.splitext: the extension starts at the last dot of the last path
\* component, unless only dots precede it in that component
splitext(p) ==
    LET sepIndex == rfind(p, "/")
        dotIndex == rfind(p, ".")
    IN  IF /\ dotIndex > sepIndex
           /\ \E k \in sepIndex + 1 .. dotIndex - 1 : p[k] # "."
        THEN <<SubSeq(p, 1, dotIndex - 1), SubSeq(p, dotIndex, Len(p))>>
        ELSE <<p, <<>> >>

\* s starts with the characters of old
starts_with(s, old) ==
    Len(s) >= Len(old) /\ SubSeq(s, 1, Len(old)) = old

\* str.replace(old, new): every occurrence, left to right, not overlapping
RECURSIVE str_replace(_, _, _)
str_replace(s, old, new) ==
    IF s = <<>> THEN <<>>
    ELSE IF starts_with(s, old)
         THEN new \o str_replace(SubSeq(s, Len(old) + 1, Len(s)), old, new)
         ELSE <<Head(s)>> \o str_replace(Tail(s), old, new)

create_output_filename(input_path) ==
    LET parts == splitext(input_path)
    IN  parts[1] \o Marker \o parts[2]

\* input_path.replace(".pdf", "-Accessible-Copy.pdf")
pdf_output_path(input_path) ==
    str_replace(input_path, DotPdf, Marker \o DotPdf)

Directories == { <<>>, <<"d", "/">>, <<"a", ".", "p", "d", "f", "/">>,
                 <<".", "c", "/">> }
BaseNames == { <<"r">>, <<"r", ".", "p", "d", "f">>, <<"m", ".", "v">>, <<".", "h">> }
Extensions == { DotPdf, <<".", "P", "D", "F">>, <<".", "P", "d", "f">>,
                DotDocx, <<".", "D", "O", "C", "X">>,
                DotPptx, <<".", "P", "p", "t", "x">>,
                <<".", "t", "x", "t">>, <<>> }

FilePaths == { d \o b \o e : d \in Directories, b \in BaseNames, e \in Extensions }

\* the file system: opens, the file at file_path exists and the library
\* opens it; writable, a new file can be written into a directory that
\* exists; dirs_made, the directories named by a derived path exist although
\* they are not the directory of the input file
FileSystems == [opens : BOOLEAN, writable : BOOLEAN, dirs_made : BOOLEAN]

\* the directory part of a path, up to and including the last "/"
dirname(p) == SubSeq(p, 1, rfind(p, "/"))

\* save(target) of a document opened from input_path writes the file: the
\* directory of target exists and takes the file
save_writes(f, input_path, target) ==
    /\ f.writable
    /\ dirname(target) = dirname(input_path) \/ f.dirs_made

(***************************************************************************)
(* process_pdf: the page loop                                              *)
(***************************************************************************)
MaxPages == 2

\* margin = 3
Margin == 3
\* r.height < 5
MinBlockHeight == 5
\* r.width < 10
MinBlockWidth == 10
\* merge_threshold=15
DefaultMergeThreshold == 15

\* a block of text_dict["blocks"]; has_bbox is "bbox" in block; a line is
\* the list of the texts of its spans
PdfBlock(t, hb, b, l) ==
    [id |-> 0, type |-> t, has_bbox |-> hb, bbox |-> b, lines |-> l]

TextA == PdfBlock(0, TRUE, Rect(10, 10, 110, 30), << <<"x", " ">>, <<"y">> >>)
TextB == PdfBlock(0, TRUE, Rect(12, 40, 112, 46), << <<"z">> >>)
TextLow == PdfBlock(0, TRUE, Rect(10, 70, 110, 73), << <<"x">> >>)
TextNarrow == PdfBlock(0, TRUE, Rect(10, 90, 19, 110), << <<"x">> >>)
TextEdge == PdfBlock(0, TRUE, Rect(10, 120, 20, 125), << <<"x">>, <<"">> >>)
TextNoBox == PdfBlock(0, FALSE, NoRect, << <<"x">> >>)
ImageA == PdfBlock(1, TRUE, Rect(200, 10, 260, 60), <<>>)
ImageB == PdfBlock(1, TRUE, Rect(200, 80, 260, 120), <<>>)
ImageNoBox == PdfBlock(1, FALSE, NoRect, <<>>)

\* a page: its blocks and, for each entry of page.get_images, whether
\* fitz.Pixmap and insert_image succeed on it (TRUE) or raise (FALSE)
PdfPage(bs, imgs) ==
    [blocks |-> [i \in 1 .. Len(bs) |-> [bs[i] EXCEPT !.id = i]], images |-> imgs]

PdfPages ==
    { PdfPage(<<TextA, TextB>>, <<>>),
      PdfPage(<<ImageA, TextLow, TextEdge>>, <<FALSE, TRUE>>),
      PdfPage(<<ImageA, ImageB, TextA>>, <<FALSE, FALSE>>),
      PdfPage(<<TextNoBox, ImageNoBox, TextNarrow>>, <<TRUE>>),
      PdfPage(<<TextB, ImageA>>, <<TRUE, FALSE>>),
      PdfPage(<<>>, <<>>) }

Documents ==
    UNION { [1 .. n -> PdfPages] : n \in 1 .. MaxPages }

\* one issued call: the page it is issued on, the call, the block it is for,
\* the image entry or <<line, span>> it is for, and the rectangle drawn
Op(p, kind, b, k, r) == [page |-> p, op |-> kind, block |-> b, item |-> k, rect |-> r]

\* the page of the running iteration: page = doc[page_index]
cur_page == doc[page_index + 1]
cur_blocks == cur_page.blocks
cur_images == cur_page.images

\* block.get("type") != 1 or "bbox" not in block
is_image_block(b) == b.type = 1 /\ b.has_bbox

\* a block is skipped when it is at most 5 high or at most 10 wide
renders_above_floor(b) ==
    /\ b.type = 0 /\ b.has_bbox
    /\ ~ (Height(b.bbox) <= MinBlockHeight \/ Width(b.bbox) <= MinBlockWidth)

\* the two "continue" of the text loop: not a text block with a bbox, or
\* r.height < 5 or r.width < 10
renders(b) ==
    /\ b.type = 0 /\ b.has_bbox
    /\ ~ (Height(b.bbox) < MinBlockHeight \/ Width(b.bbox) < MinBlockWidth)

inset(r) == Rect(r.x0 + Margin, r.y0 + Margin, r.x1 - Margin, r.y1 - Margin)

\* text.strip() is empty
is_blank(text) == text \in {"", " "}

\* the text is inserted before the white panel is drawn
span_ops_text_first(p, b, l, k, text) ==
    IF is_blank(text) THEN <<>>
    ELSE << Op(p, "text", b, <<l, k>>, NoRect), Op(p, "panel", b, <<l, k>>, NoRect) >>

\* one span: nothing when blank, else the white panel and then the text
span_ops(p, b, l, k, text) ==
    IF is_blank(text) THEN <<>>
    ELSE << Op(p, "panel", b, <<l, k>>, NoRect), Op(p, "text", b, <<l, k>>, NoRect) >>

\* for span in line.get("spans", []), from span k on
RECURSIVE line_ops(_, _, _, _, _)
line_ops(p, b, l, spans, k) ==
    IF k > Len(spans) THEN <<>>
    ELSE span_ops(p, b, l, k, spans[k]) \o line_ops(p, b, l, spans, k + 1)

\* for line in block.get("lines", []), from line l on
RECURSIVE lines_ops(_, _, _, _)
lines_ops(p, b, lines, l) ==
    IF l > Len(lines) THEN <<>>
    ELSE line_ops(p, b, l, lines[l], 1) \o lines_ops(p, b, lines, l + 1)

\* one rendered text block: the outline, then its spans
text_block_ops(p, blk) ==
    << Op(p, "outline", blk.id, 0, inset(blk.bbox)) >>
    \o lines_ops(p, blk.id, blk.lines, 1)

(***************************************************************************)
(* Specifications: one per entry point.  The variables of the entry points *)
(* that are not running keep their idle values.                            *)
(***************************************************************************)
SnapIdle ==
    /\ rect = NoRect
    /\ page_rect = NoRect
    /\ grid_size = 1
    /\ clamped = NoRect

MergeIdle ==
    /\ blocks = <<>>
    /\ vertical_threshold = 0
    /\ merged = <<>>

ImageIdle ==
    /\ page = [rect |-> NoRect, images |-> <<>>]
    /\ images = <<>>

FileIdle ==
    /\ file_path = <<>>
    /\ fs = [opens |-> TRUE, writable |-> TRUE, dirs_made |-> FALSE]
    /\ save_path = <<>>
    /\ saved = FALSE
    /\ dialog = "none"

PdfIdle ==
    /\ doc = <<>>
    /\ page_index = 0
    /\ block_i = 1
    /\ img_i = 1
    /\ ops = <<>>

InitSnap ==
    /\ pc = "snap_args"
    /\ rect \in InputRects
    /\ page_rect \in PageRects
    /\ grid_size \in GridSizes
    /\ clamped = NoRect
    /\ MergeIdle /\ ImageIdle /\ FileIdle /\ PdfIdle

\* first application to the drawn arguments
SnapCall ==
    /\ pc = "snap_args"
    /\ clamped' = snap_rect_expand_and_clamp(rect, page_rect, grid_size)
    /\ pc' = "snapped"
    /\ UNCHANGED <<rect, page_rect, grid_size>>
    /\ UNCHANGED <<merge_vars, image_vars, file_vars, pdf_vars>>

\* second application: the result is the new argument
SnapAgain ==
    /\ pc = "snapped"
    /\ rect' = clamped
    /\ clamped' = snap_rect_expand_and_clamp(clamped, page_rect, grid_size)
    /\ pc' = "resnapped"
    /\ UNCHANGED <<page_rect, grid_size>>
    /\ UNCHANGED <<merge_vars, image_vars, file_vars, pdf_vars>>

NextSnap == SnapCall \/ SnapAgain

SpecSnap == InitSnap /\ [][NextSnap]_vars

InitMerge ==
    /\ pc = "merge_args"
    /\ \E n \in 0 .. MaxMergeBlocks :
          \E f \in [1 .. n -> RawBlocks] : blocks = with_identity(f)
    /\ vertical_threshold \in Thresholds
    /\ merged = <<>>
    /\ SnapIdle /\ ImageIdle /\ FileIdle /\ PdfIdle

MergeCall ==
    /\ pc = "merge_args"
    /\ merged' = merge_text_blocks(blocks, vertical_threshold)
    /\ blocks' = blocks_after_merge(blocks, merged')
    /\ pc' = "merged"
    /\ UNCHANGED vertical_threshold
    /\ UNCHANGED <<snap_vars, image_vars, file_vars, pdf_vars>>

NextMerge == MergeCall

SpecMerge == InitMerge /\ [][NextMerge]_vars

InitImages ==
    /\ pc = "extract_args"
    /\ \E n \in 0 .. MaxImages :
          \E f \in [1 .. n -> ImageOutcomes] :
              page = [rect |-> ImagePageRect, images |-> with_xref(f)]
    /\ images = <<>>
    /\ SnapIdle /\ MergeIdle /\ FileIdle /\ PdfIdle

ExtractCall ==
    /\ pc = "extract_args"
    /\ images' = extract_images_with_bboxes(page)
    /\ pc' = "extracted"
    /\ UNCHANGED page
    /\ UNCHANGED <<snap_vars, merge_vars, file_vars, pdf_vars>>

NextImages == ExtractCall

SpecImages == InitImages /\ [][NextImages]_vars

InitFile ==
    /\ pc = "handle_file"
    /\ file_path \in FilePaths
    /\ fs \in FileSystems
    /\ save_path = <<>>
    /\ saved = FALSE
    /\ dialog = "none"
    /\ SnapIdle /\ MergeIdle /\ ImageIdle /\ PdfIdle

\* ext = os.path.splitext(file_path)[1].lower()
dispatch_ext(path) == lower(splitext(path)[2])

\* a process_* call on file_path that saves at target: opening or saving may
\* raise, which handle_file turns into the "Error processing file" dialog;
\* saving under the name the document was opened from writes the file or
\* raises, depending on the library
process_and_save(target) ==
    IF ~ fs.opens
    THEN /\ save_path' = <<>>
         /\ saved' = FALSE
         /\ dialog' = "Error processing file"
    ELSE /\ save_path' = target
         /\ IF ~ save_writes(fs, file_path, target)
            THEN saved' = FALSE /\ dialog' = "Error processing file"
            ELSE \/ saved' = TRUE /\ dialog' = "none"
                 \/ /\ target = file_path
                    /\ saved' = FALSE
                    /\ dialog' = "Error processing file"

\* process_docx: the document is saved at create_output_filename(input_path)
HandleDocx ==
    /\ pc = "handle_file"
    /\ dispatch_ext(file_path) = DotDocx
    /\ process_and_save(create_output_filename(file_path))
    /\ pc' = "handled"
    /\ UNCHANGED <<file_path, fs>>
    /\ UNCHANGED <<snap_vars, merge_vars, image_vars, pdf_vars>>

\* process_pptx: the presentation is saved at create_output_filename(input_path)
HandlePptx ==
    /\ pc = "handle_file"
    /\ dispatch_ext(file_path) = DotPptx
    /\ process_and_save(create_output_filename(file_path))
    /\ pc' = "handled"
    /\ UNCHANGED <<file_path, fs>>
    /\ UNCHANGED <<snap_vars, merge_vars, image_vars, pdf_vars>>

\* process_pdf: doc.save(input_path.replace(".pdf", "-Accessible-Copy.pdf"))
HandlePdf ==
    /\ pc = "handle_file"
    /\ dispatch_ext(file_path) = DotPdf
    /\ process_and_save(pdf_output_path(file_path))
    /\ pc' = "handled"
    /\ UNCHANGED <<file_path, fs>>
    /\ UNCHANGED <<snap_vars, merge_vars, image_vars, pdf_vars>>

\* the else branch: messagebox.showerror("Unsupported file", ...)
HandleUnsupported ==
    /\ pc = "handle_file"
    /\ dispatch_ext(file_path) \notin {DotDocx, DotPptx, DotPdf}
    /\ dialog' = "Unsupported file"
    /\ pc' = "handled"
    /\ UNCHANGED <<file_path, fs, save_path, saved>>
    /\ UNCHANGED <<snap_vars, merge_vars, image_vars, pdf_vars>>

NextFile == HandleDocx \/ HandlePptx \/ HandlePdf \/ HandleUnsupported

SpecFile == InitFile /\ [][NextFile]_vars

InitPdf ==
    /\ pc = "page_loop"
    /\ doc \in Documents
    /\ page_index = 0
    /\ block_i = 1
    /\ img_i = 1
    /\ ops = <<>>
    /\ SnapIdle /\ MergeIdle /\ ImageIdle /\ FileIdle

OtherIdle == UNCHANGED <<snap_vars, merge_vars, image_vars, file_vars>>

\* a page iteration starts: page.draw_rect(rect, fill white), then the
\* blocks and images of the page are read
ErasePage ==
    /\ pc = "page_loop"
    /\ page_index < Len(doc)
    /\ ops' = Append(ops, Op(page_index, "erase", 0, 0, NoRect))
    /\ block_i' = 1
    /\ pc' = "image_layer"
    /\ UNCHANGED <<doc, page_index, img_i>>
    /\ OtherIdle

\* image loop: the block is not an image block with a bbox
ImageBlockSkip ==
    /\ pc = "image_layer"
    /\ block_i <= Len(cur_blocks)
    /\ ~ is_image_block(cur_blocks[block_i])
    /\ block_i' = block_i + 1
    /\ UNCHANGED <<pc, doc, page_index, img_i, ops>>
    /\ OtherIdle

\* image loop: the border of an image block, then the inner loop starts
ImageBlockBorder ==
    /\ pc = "image_layer"
    /\ block_i <= Len(cur_blocks)
    /\ is_image_block(cur_blocks[block_i])
    /\ ops' = Append(ops, Op(page_index, "border", block_i, 0,
                             cur_blocks[block_i].bbox))
    /\ img_i' = 1
    /\ pc' = "image_try"
    /\ UNCHANGED <<doc, page_index, block_i>>
    /\ OtherIdle

\* inner loop: the image is inserted, break
ImageTryOk ==
    /\ pc = "image_try"
    /\ img_i <= Len(cur_images)
    /\ cur_images[img_i]
    /\ ops' = Append(ops, Op(page_index, "insert_image", block_i, img_i,
                             cur_blocks[block_i].bbox))
    /\ block_i' = block_i + 1
    /\ pc' = "image_layer"
    /\ UNCHANGED <<doc, page_index, img_i>>
    /\ OtherIdle

\* the except branch ends the inner loop instead of continuing it
ImageTryFailBreaks ==
    /\ pc = "image_try"
    /\ img_i <= Len(cur_images)
    /\ ~ cur_images[img_i]
    /\ ops' = Append(ops, Op(page_index, "image_error", block_i, img_i, NoRect))
    /\ block_i' = block_i + 1
    /\ pc' = "image_layer"
    /\ UNCHANGED <<doc, page_index, img_i>>
    /\ OtherIdle

\* inner loop: Pixmap or insert_image raises, the error is printed, continue
ImageTryFail ==
    /\ pc = "image_try"
    /\ img_i <= Len(cur_images)
    /\ ~ cur_images[img_i]
    /\ ops' = Append(ops, Op(page_index, "image_error", block_i, img_i, NoRect))
    /\ img_i' = img_i + 1
    /\ UNCHANGED <<pc, doc, page_index, block_i>>
    /\ OtherIdle

\* inner loop: no image is left
ImageTryExhausted ==
    /\ pc = "image_try"
    /\ img_i > Len(cur_images)
    /\ block_i' = block_i + 1
    /\ pc' = "image_layer"
    /\ UNCHANGED <<doc, page_index, img_i, ops>>
    /\ OtherIdle

\* the image loop ends, the text loop starts
ImageLayerDone ==
    /\ pc = "image_layer"
    /\ block_i > Len(cur_blocks)
    /\ block_i' = 1
    /\ pc' = "text_layer"
    /\ UNCHANGED <<doc, page_index, img_i, ops>>
    /\ OtherIdle

\* text loop: one of the two "continue"
TextBlockSkip ==
    /\ pc = "text_layer"
    /\ block_i <= Len(cur_blocks)
    /\ ~ renders(cur_blocks[block_i])
    /\ block_i' = block_i + 1
    /\ UNCHANGED <<pc, doc, page_index, img_i, ops>>
    /\ OtherIdle

\* text loop: the outline and the spans of one block
TextBlockDraw ==
    /\ pc = "text_layer"
    /\ block_i <= Len(cur_blocks)
    /\ renders(cur_blocks[block_i])
    /\ ops' = ops \o text_block_ops(page_index, cur_blocks[block_i])
    /\ block_i' = block_i + 1
    /\ UNCHANGED <<pc, doc, page_index, img_i>>
    /\ OtherIdle

\* the text loop ends: next page_index
TextLayerDone ==
    /\ pc = "text_layer"
    /\ block_i > Len(cur_blocks)
    /\ page_index' = page_index + 1
    /\ pc' = "page_loop"
    /\ UNCHANGED <<doc, block_i, img_i, ops>>
    /\ OtherIdle

\* the page loop ends: doc.save(output_path)
SaveDoc ==
    /\ pc = "page_loop"
    /\ page_index = Len(doc)
    /\ ops' = Append(ops, Op(page_index, "save", 0, 0, NoRect))
    /\ pc' = "done"
    /\ UNCHANGED <<doc, page_index, block_i, img_i>>
    /\ OtherIdle

NextPdf ==
    \/ ErasePage
    \/ ImageBlockSkip \/ ImageBlockBorder
    \/ ImageTryOk \/ ImageTryFail \/ ImageTryExhausted
    \/ ImageLayerDone
    \/ TextBlockSkip \/ TextBlockDraw
    \/ TextLayerDone
    \/ SaveDoc

SpecPdf == InitPdf /\ [][NextPdf]_vars

(***************************************************************************)
(* Claims                                                                  *)
(***************************************************************************)
Contained(r, p) ==
    /\ p.x0 <= r.x0 /\ r.x0 <= r.x1 /\ r.x1 <= p.x1
    /\ p.y0 <= r.y0 /\ r.y0 <= r.y1 /\ r.y1 <= p.y1

\* C1: the result of snap_rect_expand_and_clamp is a valid rectangle
\* contained in page_rect, for every input rectangle
C1_Containment ==
    pc = "snapped" => Contained(clamped, page_rect)

\* C2: applying snap_rect_expand_and_clamp to its own result, with the same
\* page_rect and grid_size, returns that result unchanged
C2_Idempotent ==
    pc = "resnapped" => clamped = rect

\* a second application ran on a result that the page clamped to an edge
\* which is not a multiple of grid_size
C2_Witness ==
    /\ pc = "resnapped"
    /\ rect.x0 = page_rect.x0
    /\ page_rect.x0 % grid_size # 0
    /\ rect.x1 = page_rect.x1
    /\ page_rect.x1 % grid_size # 0
    /\ rect.x0 < rect.x1

\* the lines of a list of blocks, in list order
RECURSIVE lines_of(_)
lines_of(bs) == IF bs = <<>> THEN <<>> ELSE Head(bs).lines \o lines_of(Tail(bs))

\* how often the line content c occurs in the sequence s
Count(s, c) == Cardinality({ i \in 1 .. Len(s) : s[i] = c })

SameLineMultiset(s, t) ==
    \A c \in {"a", "b"} : Count(s, c) = Count(t, c)

\* C3: the multiset of lines over the blocks returned by merge_text_blocks
\* equals the multiset of lines over the blocks passed in
C3_Conservative ==
    [][MergeCall => SameLineMultiset(lines_of(merged'), lines_of(blocks))]_vars

\* a call merged two text blocks into one and emitted a second block
C3_Witness ==
    /\ pc = "merged"
    /\ Len(merged) = 2
    /\ Len(text_blocks_of(blocks)) = 3
    /\ \E k \in 1 .. 2 : Len(merged[k].lines) >= 3

\* the merge key as the claim states it: B.y0 - A.y1 <= threshold and
\* |B.x0 - A.x0| < 5
MergeKey(a, b, thr) ==
    b.y0 - a.y1 <= thr /\ Abs(b.x0 - a.x0) < 5

\* C7 as stated: no two consecutive returned blocks, with their final
\* bounding boxes, satisfy the merge condition
C7_DisjointFinal ==
    pc = "merged" =>
        \A k \in 1 .. Len(merged) - 1 :
            ~ MergeKey(merged[k].bbox, merged[k + 1].bbox, vertical_threshold)

\* C7 amended: for consecutive returned blocks A, B the merge condition fails
\* between the final bounding box of A and the bounding box that B's first
\* input block had when it became the accumulator
C7_DisjointAtStart ==
    [][MergeCall =>
        \A k \in 1 .. Len(merged') - 1 :
            ~ MergeKey(merged'[k].bbox, blocks[merged'[k + 1].id].bbox,
                       vertical_threshold)]_vars

\* a call returned two blocks of which the second one grew by a merge and,
\* with its final bounding box, satisfies the merge condition with the first
C7_Witness ==
    /\ pc = "merged"
    /\ Len(merged) >= 2
    /\ Len(merged[2].lines) >= 2
    /\ Len(text_blocks_of(blocks)) = 3
    /\ MergeKey(merged[1].bbox, merged[2].bbox, vertical_threshold)

\* a rectangle b on a page with rectangle pr is a background image as the
\* claim describes it: at least 98% of the page in one dimension and an edge
\* of the other dimension at most 1 unit from the page's
BackgroundAsClaimed(b, pr) ==
    \/ /\ Width(b) * 100 >= Width(pr) * NearFullPercent
       /\ (Abs(b.y0 - pr.y0) <= AlignSlack \/ Abs(b.y1 - pr.y1) <= AlignSlack)
    \/ /\ Height(b) * 100 >= Height(pr) * NearFullPercent
       /\ (Abs(b.x0 - pr.x0) <= AlignSlack \/ Abs(b.x1 - pr.x1) <= AlignSlack)

\* the same with the strict comparisons: more than 98% of the page and an
\* edge less than 1 unit from the page's
BackgroundStrict(b, pr) ==
    \/ /\ Width(b) * 100 > Width(pr) * NearFullPercent
       /\ (Abs(b.y0 - pr.y0) < AlignSlack \/ Abs(b.y1 - pr.y1) < AlignSlack)
    \/ /\ Height(b) * 100 > Height(pr) * NearFullPercent
       /\ (Abs(b.x0 - pr.x0) < AlignSlack \/ Abs(b.x1 - pr.x1) < AlignSlack)

RetainedAsClaimed(img) ==
    /\ img.resolves
    /\ Width(img.bbox) >= MinImageSize
    /\ Height(img.bbox) >= MinImageSize
    /\ ~ BackgroundAsClaimed(img.bbox, page.rect)

RetainedStrict(img) ==
    /\ img.resolves
    /\ Width(img.bbox) >= MinImageSize
    /\ Height(img.bbox) >= MinImageSize
    /\ ~ BackgroundStrict(img.bbox, page.rect)

\* the entries of the page that satisfy Keep, with their rectangles, in order
Kept(Keep(_)) ==
    LET sel == SelectSeq(page.images, Keep)
    IN  [k \in 1 .. Len(sel) |-> [xref |-> sel[k].xref, bbox |-> sel[k].bbox]]

\* C6 as stated: the returned images are exactly the entries that resolve,
\* are at least 10 wide and high and are not background with ">= 98%" and
\* "within 1 unit", with their rectangles and in input order
C6_RetainedAsClaimed ==
    pc = "extracted" => images = Kept(RetainedAsClaimed)

\* C6 amended: the same with background meaning more than 98% of the page in
\* one dimension and an edge less than 1 unit from the page's
C6_RetainedStrict ==
    pc = "extracted" => images = Kept(RetainedStrict)

\* a page with an entry that fails to resolve and an image exactly 98% of
\* the page wide with its top edge 1 unit below the page's, which is retained
C6_Witness ==
    /\ pc = "extracted"
    /\ Len(page.images) = 2
    /\ ~ page.images[1].resolves
    /\ Len(images) = 1
    /\ images[1].xref = 2
    /\ Width(images[1].bbox) * 100 = Width(page.rect) * NearFullPercent
    /\ images[1].bbox.y0 - page.rect.y0 = AlignSlack

Accepted == dispatch_ext(file_path) \in {DotDocx, DotPptx, DotPdf}

\* C4: for an accepted input path the document is saved at the path with the
\* same directory and extension and the base name suffixed with the marker,
\* which differs from the input path
C4_DerivedPath ==
    (pc = "handled" /\ Accepted /\ save_path # <<>>) =>
        /\ save_path = splitext(file_path)[1] \o Marker \o splitext(file_path)[2]
        /\ dirname(save_path) = dirname(file_path)
        /\ save_path # file_path

PageNumbers == 0 .. Len(doc) - 1
OpIndexes == 1 .. Len(ops)

\* some call of one of the kinds was issued for block b of page p
Issued(p, b, kinds) ==
    \E i \in OpIndexes : ops[i].page = p /\ ops[i].block = b /\ ops[i].op \in kinds

\* the outline rectangles drawn on page p, in order
Outlines(p) ==
    LET sel == SelectSeq(ops, LAMBDA o : o.page = p /\ o.op = "outline")
    IN  [k \in 1 .. Len(sel) |-> sel[k].rect]

\* page p holds exactly two text blocks, the second one below the first
\* within the merge threshold and with the left edges less than 5 apart
TwoMergeableBlocks(p) ==
    LET bs == doc[p + 1].blocks
    IN  /\ Len(bs) = 2
        /\ \A i \in 1 .. 2 : bs[i].type = 0 /\ bs[i].has_bbox
        /\ bs[1].bbox.y0 <= bs[2].bbox.y0
        /\ merge_condition(bs[1].bbox, bs[2].bbox, DefaultMergeThreshold)

\* C5: a page with two mergeable text blocks is redrawn as the single block
\* merge_text_blocks returns for it: one outline, around the union
C5_MergedTextLayer ==
    pc = "done" =>
        \A p \in PageNumbers :
            TwoMergeableBlocks(p) =>
                LET m == merge_text_blocks(doc[p + 1].blocks, DefaultMergeThreshold)
                IN  Outlines(p) = [k \in 1 .. Len(m) |-> inset(m[k].bbox)]

ImageAttempts == {"insert_image", "image_error"}

\* C8: after an image raises, the next image of the page is tried for the
\* same block; when process_pdf ends every page was erased, every image
\* block got its border, every text block above the size floor got its
\* outline and the document was saved
C8_ImageFailureNonFatal ==
    /\ \A i \in OpIndexes :
          (ops[i].op = "image_error"
             /\ ops[i].item < Len(doc[ops[i].page + 1].images)) =>
            IF i < Len(ops)
            THEN /\ ops[i + 1].op \in ImageAttempts
                 /\ ops[i + 1].page = ops[i].page
                 /\ ops[i + 1].block = ops[i].block
                 /\ ops[i + 1].item = ops[i].item + 1
            ELSE /\ pc = "image_try"
                 /\ block_i = ops[i].block
                 /\ img_i = ops[i].item + 1
    /\ pc = "done" =>
          /\ ops[Len(ops)].op = "save"
          /\ \A p \in PageNumbers :
                /\ Issued(p, 0, {"erase"})
                /\ \A b \in 1 .. Len(doc[p + 1].blocks) :
                      LET blk == doc[p + 1].blocks[b]
                      IN  /\ is_image_block(blk) => Issued(p, b, {"border"})
                          /\ renders(blk) => Issued(p, b, {"outline"})

\* a finished two-page run in which, on the first page, an image raised, a
\* later image was inserted for the same block, and text was drawn after it
C8_Witness ==
    /\ pc = "done"
    /\ Len(doc) = 2
    /\ \E i \in OpIndexes :
          /\ ops[i].op = "image_error" /\ ops[i].page = 0
          /\ ops[i + 1].op = "insert_image"
          /\ \E j \in OpIndexes : j > i /\ ops[j].op = "text" /\ ops[j].page = 0
    /\ Issued(1, 0, {"erase"})

\* the layer of a call: erase, image layer, text layer, save
Layer(o) ==
    CASE o.op = "erase" -> 0
      [] o.op \in {"border"} \cup ImageAttempts -> 1
      [] o.op \in {"outline", "panel", "text"} -> 2
      [] OTHER -> 3

\* C9: the calls are issued page by page in ascending order, on each page
\* the erase first, then the image layer (border before placement), then
\* the text layer (outline before spans, panel immediately before its
\* text), and the save after the text layer of the last page
C9_StrictOrder ==
    \A i \in OpIndexes :
        LET o == ops[i] IN
        /\ i = 1 => o.page = 0
        /\ i > 1 =>
              \/ ops[i - 1].page = o.page /\ Layer(ops[i - 1]) <= Layer(o)
              \/ ops[i - 1].page + 1 = o.page
        /\ o.op # "save" =>
              (o.op = "erase" <=> (i = 1 \/ ops[i - 1].page # o.page))
        /\ o.op \in ImageAttempts =>
              /\ ops[i - 1].page = o.page /\ ops[i - 1].block = o.block
              /\ \/ ops[i - 1].op = "border" /\ o.item = 1
                 \/ ops[i - 1].op = "image_error" /\ o.item = ops[i - 1].item + 1
        /\ o.op = "panel" =>
              /\ \E j \in 1 .. i - 1 :
                    /\ ops[j].op = "outline"
                    /\ ops[j].page = o.page /\ ops[j].block = o.block
              /\ i < Len(ops)
              /\ ops[i + 1] = [o EXCEPT !.op = "text"]
        /\ o.op = "text" => ops[i - 1] = [o EXCEPT !.op = "panel"]
        /\ o.op = "save" =>
              /\ i = Len(ops) /\ pc = "done"
              /\ o.page = Len(doc)
              /\ i > 1 /\ ops[i - 1].page = Len(doc) - 1

\* a finished two-page run whose first page lists a text block before an
\* image block, with an image placed and a span drawn on it
C9_Witness ==
    /\ pc = "done"
    /\ Len(doc) = 2
    /\ Len(doc[1].blocks) = 2
    /\ doc[1].blocks[1].type = 0 /\ doc[1].blocks[2].type = 1
    /\ Issued(0, 2, {"insert_image"})
    /\ Issued(0, 1, {"text"})
    /\ \E i \in OpIndexes : ops[i].page = 1 /\ ops[i].op = "outline"

\* the spans <<l, k>> of a block whose stripped text is not empty
VisibleSpans(blk) ==
    { lk \in (1 .. Len(blk.lines)) \X (1 .. 2) :
        lk[2] <= Len(blk.lines[lk[1]]) /\ ~ is_blank(blk.lines[lk[1]][lk[2]]) }

\* C10: a text block at least 5 high and 10 wide gets its outline and the
\* panel and text of each non-blank span once its page is done; for a text
\* block below either floor no call is issued at all
C10_SizeFloor ==
    \A p \in PageNumbers :
        \A b \in 1 .. Len(doc[p + 1].blocks) :
            LET blk == doc[p + 1].blocks[b]
                above == /\ Height(blk.bbox) >= MinBlockHeight
                         /\ Width(blk.bbox) >= MinBlockWidth
            IN  (blk.type = 0 /\ blk.has_bbox) =>
                  /\ ~ above => ~ Issued(p, b, {"border", "outline", "panel", "text"}
                                               \cup ImageAttempts)
                  /\ (above /\ page_index > p) =>
                        /\ Issued(p, b, {"outline"})
                        /\ \A i \in OpIndexes :
                              (ops[i].page = p /\ ops[i].block = b
                                 /\ ops[i].op \in {"panel", "text"})
                                => ops[i].item \in VisibleSpans(blk)
                        /\ \A lk \in VisibleSpans(blk) :
                              \E i \in OpIndexes :
                                  ops[i] = Op(p, "text", b, lk, NoRect)

\* a finished page with a text block of height 3 and a text block of
\* height 5 and width 10, the second one with an outline
C10_Witness ==
    /\ page_index >= 1
    /\ \E b \in 1 .. Len(doc[1].blocks), c \in 1 .. Len(doc[1].blocks) :
          /\ doc[1].blocks[b].type = 0 /\ doc[1].blocks[b].has_bbox
          /\ Height(doc[1].blocks[b].bbox) = 3
          /\ doc[1].blocks[c].type = 0 /\ doc[1].blocks[c].has_bbox
          /\ Height(doc[1].blocks[c].bbox) = MinBlockHeight
          /\ Width(doc[1].blocks[c].bbox) = MinBlockWidth
          /\ Issued(0, c, {"outline"})

====
